---- MODULE Spec2Model ----
(***************************************************************************)
(* Model of the machining quote calculator, src/machining_quote_app.py.    *)
(*                                                                         *)
(* The program is a Streamlit script: every widget interaction re-runs the *)
(* whole script top to bottom on the widgets' current values.  The state   *)
(* is the widgets' values (the inputs) and the module-level names the      *)
(* script binds while it runs (the results).  Each action below is one     *)
(* widget interaction followed by the complete re-run.                     *)
(*                                                                         *)
(* Numbers: Python computes with ints and floats; the model computes with  *)
(* exact rationals <<numerator, denominator>> in lowest terms with a       *)
(* positive denominator, so floating-point rounding is not modelled.       *)
(*                                                                         *)
(* The file as stored carries a stray second "})" after the append of      *)
(* section 5 (lines 142-143); the model follows the statements of the      *)
(* script without it.                                                      *)
(***************************************************************************)
EXTENDS Integers, Sequences, FiniteSets

VARIABLES
    \* ---- inputs: the widgets' values --------------------------------
    L, W, H,            \* raw block dimensions            (lines 38-40)
    V_final,            \* final part volume               (line 54)
    machine_rate,       \* machine rate, $/hr              (line 55)
    tool_cost,          \* tool wear cost per part         (line 56)
    mat_density,        \* material density, kg/mm3        (line 57)
    mat_price,          \* material cost, $/kg             (line 59)
    overhead_pct,       \* overhead, percent               (line 60)
    setup_time_min,     \* setup time, minutes             (line 64)
    setup_labor_rate,   \* labor rate, $/hr                (line 65)
    ae_mode,            \* radial depth input mode         (line 94)
    feed_mode,          \* feed rate input mode            (line 102)
    op_df_edit,         \* the operations table            (lines 108-112)
    pdf_clicked,        \* st.button("Generate PDF Quote") (line 250)
    \* ---- results: names bound by the last run -----------------------
    V_raw, V_chip,      \* lines 70-71
    op_results,         \* lines 117-140
    raised,             \* the run stopped on an exception
    mach_time_min, total_time_min,                      \* lines 161-162
    material_cost, machine_cost, setup_cost,            \* lines 174-176
    subtotal, overhead, total_cost                      \* lines 178-180

inputs == <<L, W, H, V_final, machine_rate, tool_cost, mat_density, mat_price,
            overhead_pct, setup_time_min, setup_labor_rate, ae_mode, feed_mode,
            op_df_edit>>

results == <<V_raw, V_chip, op_results, raised, mach_time_min, total_time_min,
             material_cost, machine_cost, setup_cost, subtotal, overhead,
             total_cost>>

vars == <<inputs, pdf_clicked, results>>

-----------------------------------------------------------------------------
(* Exact rational arithmetic standing for Python's *, /, +, - and max.     *)
(* The operations are functions, so their arguments are evaluated once.    *)

Rat == Int \X Int

Abs(x) == IF x < 0 THEN -x ELSE x

GCD[a \in Nat, b \in Nat] == IF b = 0 THEN a ELSE GCD[b, a % b]

\* n/d in lowest terms with a positive denominator (d # 0).
Norm[n \in Int, d \in Int] ==
    IF d < 0 THEN <<(-n) \div GCD[Abs(n), Abs(d)], (-d) \div GCD[Abs(n), Abs(d)]>>
    ELSE <<n \div GCD[Abs(n), Abs(d)], d \div GCD[Abs(n), Abs(d)]>>

R(n) == <<n, 1>>

\* A name the run never bound (the script stopped before the assignment).
Unbound == <<0, 0>>

RMul[a \in Rat, b \in Rat] ==
    Norm[(a[1] \div GCD[Abs(a[1]), b[2]]) * (b[1] \div GCD[Abs(b[1]), a[2]]),
         (a[2] \div GCD[Abs(b[1]), a[2]]) * (b[2] \div GCD[Abs(a[1]), b[2]])]

\* a / b.  Python raises ZeroDivisionError for b = 0; the script only divides
\* behind the truthiness test of line 130, so that branch is never taken.
RDiv[a \in Rat, b \in Rat] ==
    IF b[1] = 0 THEN Unbound
    ELSE RMul[a, IF b[1] < 0 THEN <<-b[2], -b[1]>> ELSE <<b[2], b[1]>>]

\* a + b over the least common denominator.
RAdd[a \in Rat, b \in Rat] ==
    Norm[a[1] * (b[2] \div GCD[a[2], b[2]]) + b[1] * (a[2] \div GCD[a[2], b[2]]),
         (a[2] \div GCD[a[2], b[2]]) * b[2]]

RSub[a \in Rat, b \in Rat] == RAdd[a, <<-b[1], b[2]>>]

RLess[a \in Rat, b \in Rat] == a[1] * b[2] < b[1] * a[2]

\* Python's max(a, b): b only if it is strictly greater.
RMax[a \in Rat, b \in Rat] == IF RLess[a, b] THEN b ELSE a

\* Python's truthiness of a number: everything but zero.
Truthy(a) == a[1] # 0

-----------------------------------------------------------------------------
(* Bounds of the model.                                                    *)

\* Longest operations table the editor is driven to.
MaxRows == 3

-----------------------------------------------------------------------------
(* Widget defaults and the values the widgets are driven to.               *)

\* Density of the default material AL6061, read from data/materials.csv
\* (line 34): 2.70e-6 kg/mm3.
rho_default == <<27, 10000000>>

\* The two labels of each radio (lines 94-106).
AE_MODES == {"Use % of tool O", "Manual ae (mm)"}
FEED_MODES == {"Calculate from RPM x fz x teeth", "Manual column 'Feed (mm/min)'"}

\* feed_mode.startswith("Calculate") and ae_mode.startswith("Use %"): of the
\* two labels of each radio exactly the first one has the prefix.
FeedIsCalculated(mode) == mode = "Calculate from RPM x fz x teeth"
AeIsPercent(mode) == mode = "Use % of tool O"

OpRow(name, tool, teeth, rpm, fz, feed, ap, ae, aepct, share) ==
    [Operation |-> name, Tool |-> tool, Teeth |-> teeth, RPM |-> rpm,
     f_z |-> fz, Feed |-> feed, a_p |-> ap, a_e |-> ae, ae_pct |-> aepct,
     VolumeShare |-> share]

default_operations ==
    << OpRow("Rough 3X", R(12), R(3), R(12000), <<3, 50>>, R(0), R(8),
             R(4), R(50), <<7, 10>>),
       OpRow("Semi-rough 5X", R(8), R(2), R(16000), <<1, 25>>, R(0), R(6),
             R(2), R(50), <<1, 4>>),
       OpRow("Finish", R(6), R(2), R(18000), <<3, 100>>, R(0), <<1, 2>>,
             <<1, 5>>, R(10), <<1, 20>>) >>

LengthValues == {R(200), R(100)}
WidthValues == {R(150), R(75)}
HeightValues == {R(40), R(20)}
FinalVolumeValues == {R(0), R(480000), R(2000000)}

MachineRateValues == {R(60), R(75)}
ToolCostValues == {R(1), R(8)}
DensityValues == {rho_default, R(0)}
PriceValues == {R(0), R(50)}
OverheadValues == {R(15), R(0)}
SetupTimeValues == {R(60), R(0)}
LaborRateValues == {R(40), R(-40)}

\* Rows typed into the table editor: the rows of the default table.
PresetRows == {default_operations[i] : i \in 1..3}

\* Values typed into single cells of a row.
Columns == {"Tool", "Teeth", "RPM", "f_z", "Feed", "a_p", "a_e", "ae_pct",
            "VolumeShare"}
CellValues(col) ==
    CASE col = "Tool"        -> {R(12), R(0)}
      [] col = "Teeth"       -> {R(3), R(0)}
      [] col = "RPM"         -> {R(12000), R(0)}
      [] col = "f_z"         -> {<<3, 50>>, R(0)}
      [] col = "Feed"        -> {R(0), R(2160), R(-2160)}
      [] col = "a_p"         -> {R(8), R(0), R(-8)}
      [] col = "a_e"         -> {R(4), R(0)}
      [] col = "ae_pct"      -> {R(50), R(0)}
      [] col = "VolumeShare" -> {<<7, 10>>, R(1)}

-----------------------------------------------------------------------------
(* The script, section by section.                                         *)

\* 3) BLOCK / CHIP VOLUMES
RawVolume(l, w, h) == RMul[RMul[l, w], h]

\* (variant: the difference taken without the clamp at zero)
ChipVolumeUnclamped(vraw, vfinal) == RSub[vraw, vfinal]

ChipVolume(vraw, vfinal) == RMax[RSub[vraw, vfinal], R(0)]

\* 5) PER-OP CALCULATIONS
\* (variant: a non-zero 'Feed (mm/min)' cell wins over the calculated feed)
FeedOfOverrideFirst(row, fmode) ==
    IF FeedIsCalculated(fmode) /\ ~Truthy(row.Feed)
    THEN RMul[RMul[row.Teeth, row.RPM], row.f_z]
    ELSE row.Feed

FeedOf(row, fmode) ==
    IF FeedIsCalculated(fmode)
    THEN RMul[RMul[row.Teeth, row.RPM], row.f_z]
    ELSE row.Feed

\* (variant: the percentage taken as a factor, without the division by 100)
AeOfFactor(row, amode) ==
    IF AeIsPercent(amode) THEN RMul[row.Tool, row.ae_pct] ELSE row.a_e

AeOf(row, amode) ==
    IF AeIsPercent(amode)
    THEN RDiv[RMul[row.Tool, row.ae_pct], R(100)]
    ELSE row.a_e

MrrOf(feed, ap, ae) == RMul[RMul[feed, ap], ae]

TimeOf(chip_vol, mrr) ==
    IF Truthy(mrr) THEN RDiv[RDiv[chip_vol, mrr], R(60)] ELSE R(0)

OpChipVolume(vchip, row) == RMul[vchip, row.VolumeShare]

\* One pass of the loop body.  Each name is bound once, as a one-element
\* set, and read as a value from there on.
PerOp(row, fmode, amode, vchip) ==
    LET cut  == {[feed |-> f, ae |-> a] :
                    f \in {FeedOf(row, fmode)}, a \in {AeOf(row, amode)}}
        rate == {[feed |-> c.feed, ae |-> c.ae, mrr |-> MrrOf(c.feed, row.a_p, c.ae),
                  chip_vol |-> OpChipVolume(vchip, row)] : c \in cut}
    IN  CHOOSE result \in
            {[Operation |-> row.Operation, Feed |-> x.feed, ae |-> x.ae,
              MRR |-> x.mrr, ChipVolume |-> x.chip_vol,
              Time |-> TimeOf(x.chip_vol, x.mrr)] : x \in rate} : TRUE

\* (variant: the list is not emptied between runs)
InitialResultsKept(previous) == previous

\* op_results = [] at the start of every run (line 117).
InitialResults(previous) == <<>>

\* (variant: a row that removes nothing is left out of the results)
RECURSIVE PerOpLoopSkipIdle(_, _, _, _, _)
PerOpLoopSkipIdle(rows, acc, fmode, amode, vchip) ==
    IF rows = <<>> THEN acc
    ELSE LET r == PerOp(Head(rows), fmode, amode, vchip)
         IN  PerOpLoopSkipIdle(Tail(rows), IF Truthy(r.MRR) THEN Append(acc, r) ELSE acc,
                               fmode, amode, vchip)

\* (variant: each row takes its share of the volume the rows before it left)
RECURSIVE PerOpLoopRemaining(_, _, _, _, _)
PerOpLoopRemaining(rows, acc, fmode, amode, vchip) ==
    IF rows = <<>> THEN acc
    ELSE LET r == PerOp(Head(rows), fmode, amode, vchip)
         IN  PerOpLoopRemaining(Tail(rows), Append(acc, r), fmode, amode,
                                RSub[vchip, r.ChipVolume])

\* for _, row in op_df_edit.iterrows(): ... op_results.append({...})
RECURSIVE PerOpLoop(_, _, _, _, _)
PerOpLoop(rows, acc, fmode, amode, vchip) ==
    IF rows = <<>> THEN acc
    ELSE PerOpLoop(Tail(rows), Append(acc, PerOp(Head(rows), fmode, amode, vchip)),
                   fmode, amode, vchip)

\* 6) op_df = pd.DataFrame(op_results); op_df["Time (min)"].sum().
\* A DataFrame built from the empty list has no columns, so for an empty
\* table the chart of line 153 and the column lookup of line 161 raise and
\* the run stops there: nothing of sections 6-8 is bound.
RaisesOnTimeColumn(res) == res = <<>>

RECURSIVE SumTime(_)
SumTime(res) == IF res = <<>> THEN R(0) ELSE RAdd[Head(res).Time, SumTime(Tail(res))]

MachTime(res) == IF RaisesOnTimeColumn(res) THEN Unbound ELSE SumTime(res)

TotalTime(stopped, mach, setup) == IF stopped THEN Unbound ELSE RAdd[mach, setup]

\* 7) COST CALCULATIONS
MaterialCost(stopped, vraw, density, price) ==
    IF stopped THEN Unbound ELSE RMul[RMul[vraw, density], price]

\* (variant: the minutes charged at the hourly rate, without the division by 60)
MachineCostPerMinute(stopped, mach, rate) ==
    IF stopped THEN Unbound ELSE RMul[mach, rate]

MachineCost(stopped, mach, rate) ==
    IF stopped THEN Unbound ELSE RMul[RDiv[mach, R(60)], rate]

SetupCost(stopped, setup, rate) ==
    IF stopped THEN Unbound ELSE RMul[RDiv[setup, R(60)], rate]

Subtotal(stopped, material, machine, tool, setup) ==
    IF stopped THEN Unbound ELSE RAdd[RAdd[RAdd[material, machine], tool], setup]

Overhead(stopped, sub, pct) ==
    IF stopped THEN Unbound ELSE RMul[sub, RDiv[pct, R(100)]]

TotalCost(stopped, sub, ovh) == IF stopped THEN Unbound ELSE RAdd[sub, ovh]

-----------------------------------------------------------------------------
(* One complete run of the script.                                         *)

\* The widgets' current values, as the run reads them.
Snapshot ==
    [L |-> L, W |-> W, H |-> H, V_final |-> V_final,
     machine_rate |-> machine_rate, tool_cost |-> tool_cost,
     mat_density |-> mat_density, mat_price |-> mat_price,
     overhead_pct |-> overhead_pct, setup_time_min |-> setup_time_min,
     setup_labor_rate |-> setup_labor_rate, ae_mode |-> ae_mode,
     feed_mode |-> feed_mode, op_df_edit |-> op_df_edit]

\* The widgets' values on the first run (lines 38-65, 94-106), with the
\* operations table `table`.
Defaults(table) ==
    [L |-> R(200), W |-> R(150), H |-> R(40), V_final |-> R(0),
     machine_rate |-> R(60), tool_cost |-> R(1),
     mat_density |-> rho_default, mat_price |-> R(0),
     overhead_pct |-> R(15), setup_time_min |-> R(60),
     setup_labor_rate |-> R(40), ae_mode |-> "Use % of tool O",
     feed_mode |-> "Calculate from RPM x fz x teeth", op_df_edit |-> table]

\* Section 7 on the results of sections 3 to 6, each name bound once.
Quote(in, vraw, vchip, res, stopped, mach) ==
    LET parts == {[material |-> MaterialCost(stopped, vraw, in.mat_density, in.mat_price),
                   machine  |-> MachineCost(stopped, mach, in.machine_rate),
                   setup    |-> SetupCost(stopped, in.setup_time_min,
                                          in.setup_labor_rate)]}
        sums  == {[parts |-> c,
                   sub   |-> Subtotal(stopped, c.material, c.machine, in.tool_cost,
                                      c.setup)] : c \in parts}
        marks == {[parts |-> t.parts, sub |-> t.sub,
                   ovh   |-> Overhead(stopped, t.sub, in.overhead_pct)] : t \in sums}
    IN  CHOOSE out \in
            {[V_raw |-> vraw, V_chip |-> vchip, op_results |-> res,
              raised |-> stopped, mach_time_min |-> mach,
              total_time_min |-> TotalTime(stopped, mach, in.setup_time_min),
              material_cost |-> q.parts.material, machine_cost |-> q.parts.machine,
              setup_cost |-> q.parts.setup, subtotal |-> q.sub, overhead |-> q.ovh,
              total_cost |-> TotalCost(stopped, q.sub, q.ovh)] : q \in marks} : TRUE

\* Sections 3 to 7 on the widget values `in`; `previous` is op_results as the
\* run before left it.
Script(in, previous) ==
    LET raw   == {RawVolume(in.L, in.W, in.H)}
        vols  == {[V_raw |-> v, V_chip |-> ChipVolume(v, in.V_final)] : v \in raw}
        ops   == {[V_raw |-> v.V_raw, V_chip |-> v.V_chip,
                   res |-> PerOpLoop(in.op_df_edit, InitialResults(previous),
                                     in.feed_mode, in.ae_mode, v.V_chip)] : v \in vols}
        times == {[V_raw |-> o.V_raw, V_chip |-> o.V_chip, res |-> o.res,
                   mach |-> MachTime(o.res)] : o \in ops}
    IN  CHOOSE out \in
            {Quote(in, t.V_raw, t.V_chip, t.res, RaisesOnTimeColumn(t.res), t.mach) :
                t \in times} : TRUE

FirstRun(in) ==
    \E out \in {Script(in, <<>>)} :
        /\ L = in.L /\ W = in.W /\ H = in.H
        /\ V_final = in.V_final
        /\ machine_rate = in.machine_rate
        /\ tool_cost = in.tool_cost
        /\ mat_density = in.mat_density
        /\ mat_price = in.mat_price
        /\ overhead_pct = in.overhead_pct
        /\ setup_time_min = in.setup_time_min
        /\ setup_labor_rate = in.setup_labor_rate
        /\ ae_mode = in.ae_mode
        /\ feed_mode = in.feed_mode
        /\ op_df_edit = in.op_df_edit
        /\ pdf_clicked = FALSE
        /\ V_raw = out.V_raw
        /\ V_chip = out.V_chip
        /\ op_results = out.op_results
        /\ raised = out.raised
        /\ mach_time_min = out.mach_time_min
        /\ total_time_min = out.total_time_min
        /\ material_cost = out.material_cost
        /\ machine_cost = out.machine_cost
        /\ setup_cost = out.setup_cost
        /\ subtotal = out.subtotal
        /\ overhead = out.overhead
        /\ total_cost = out.total_cost

\* A re-run on the widget values `in`; `clicked` says whether the PDF button
\* triggered it.
Rerun(in, clicked) ==
    \E out \in {Script(in, op_results)} :
        /\ L' = in.L /\ W' = in.W /\ H' = in.H
        /\ V_final' = in.V_final
        /\ machine_rate' = in.machine_rate
        /\ tool_cost' = in.tool_cost
        /\ mat_density' = in.mat_density
        /\ mat_price' = in.mat_price
        /\ overhead_pct' = in.overhead_pct
        /\ setup_time_min' = in.setup_time_min
        /\ setup_labor_rate' = in.setup_labor_rate
        /\ ae_mode' = in.ae_mode
        /\ feed_mode' = in.feed_mode
        /\ op_df_edit' = in.op_df_edit
        /\ pdf_clicked' = clicked
        /\ V_raw' = out.V_raw
        /\ V_chip' = out.V_chip
        /\ op_results' = out.op_results
        /\ raised' = out.raised
        /\ mach_time_min' = out.mach_time_min
        /\ total_time_min' = out.total_time_min
        /\ material_cost' = out.material_cost
        /\ machine_cost' = out.machine_cost
        /\ setup_cost' = out.setup_cost
        /\ subtotal' = out.subtotal
        /\ overhead' = out.overhead
        /\ total_cost' = out.total_cost

Init == FirstRun(Defaults(default_operations))

\* The table cut down to its first row, every other widget at its default.
InitCells == FirstRun(Defaults(<<default_operations[1]>>))

-----------------------------------------------------------------------------
(* Widget interactions.  Each one sets one widget and re-runs the script.  *)

EditLength ==
    /\ \E v \in LengthValues : Rerun([Snapshot EXCEPT !.L = v], FALSE)

EditWidth ==
    /\ \E v \in WidthValues : Rerun([Snapshot EXCEPT !.W = v], FALSE)

EditHeight ==
    /\ \E v \in HeightValues : Rerun([Snapshot EXCEPT !.H = v], FALSE)

EditFinalVolume ==
    /\ \E v \in FinalVolumeValues : Rerun([Snapshot EXCEPT !.V_final = v], FALSE)

EditMachineRate ==
    /\ \E v \in MachineRateValues : Rerun([Snapshot EXCEPT !.machine_rate = v], FALSE)

EditToolCost ==
    /\ \E v \in ToolCostValues : Rerun([Snapshot EXCEPT !.tool_cost = v], FALSE)

EditDensity ==
    /\ \E v \in DensityValues : Rerun([Snapshot EXCEPT !.mat_density = v], FALSE)

EditPrice ==
    /\ \E v \in PriceValues : Rerun([Snapshot EXCEPT !.mat_price = v], FALSE)

EditOverhead ==
    /\ \E v \in OverheadValues : Rerun([Snapshot EXCEPT !.overhead_pct = v], FALSE)

EditSetupTime ==
    /\ \E v \in SetupTimeValues : Rerun([Snapshot EXCEPT !.setup_time_min = v], FALSE)

EditLaborRate ==
    /\ \E v \in LaborRateValues : Rerun([Snapshot EXCEPT !.setup_labor_rate = v], FALSE)

SetAeMode ==
    /\ \E m \in AE_MODES : Rerun([Snapshot EXCEPT !.ae_mode = m], FALSE)

SetFeedMode ==
    /\ \E m \in FEED_MODES : Rerun([Snapshot EXCEPT !.feed_mode = m], FALSE)

\* st.data_editor with num_rows="dynamic" (lines 108-112): a row added at the
\* end and filled in, a row deleted, a row retyped.
AddRow ==
    /\ Len(op_df_edit) < MaxRows
    /\ \E r \in PresetRows :
          Rerun([Snapshot EXCEPT !.op_df_edit = Append(op_df_edit, r)], FALSE)

DeleteRow ==
    \E i \in 1..Len(op_df_edit) :
        Rerun([Snapshot EXCEPT !.op_df_edit =
                  SubSeq(op_df_edit, 1, i - 1) \o SubSeq(op_df_edit, i + 1, Len(op_df_edit))],
              FALSE)

EditRow ==
    \E i \in 1..Len(op_df_edit) : \E r \in PresetRows :
        Rerun([Snapshot EXCEPT !.op_df_edit[i] = r], FALSE)

\* One cell of one row retyped in the editor.
EditCell ==
    \E i \in 1..Len(op_df_edit) : \E col \in Columns : \E v \in CellValues(col) :
        Rerun([Snapshot EXCEPT !.op_df_edit[i][col] = v], FALSE)

\* The button is drawn by the last statement of the script, so it exists only
\* after a run that reached it.  A click re-runs the script on unchanged
\* widget values; build_pdf only reads the results.
ClickGeneratePdf ==
    /\ ~raised
    /\ Rerun(Snapshot, TRUE)

\* The table editor, the block and the mode radios.
Next ==
    \/ EditLength
    \/ EditFinalVolume
    \/ SetAeMode
    \/ SetFeedMode
    \/ AddRow
    \/ DeleteRow
    \/ EditRow
    \/ ClickGeneratePdf

Spec == Init /\ [][Next]_vars

\* Single cells of one row, with the modes and the final volume.
NextCells ==
    \/ EditCell
    \/ SetAeMode
    \/ SetFeedMode
    \/ EditFinalVolume

SpecCells == InitCells /\ [][NextCells]_vars

\* The widgets of the sidebar, with the feed mode to move the machining time.
NextSidebar ==
    \/ EditMachineRate
    \/ EditToolCost
    \/ EditDensity
    \/ EditPrice
    \/ EditOverhead
    \/ EditSetupTime
    \/ EditLaborRate
    \/ EditLength
    \/ EditWidth
    \/ EditHeight
    \/ EditFinalVolume
    \/ SetFeedMode

SpecSidebar == Init /\ [][NextSidebar]_vars

-----------------------------------------------------------------------------
(* Properties of the estimation engine.                                    *)

Rows == 1..Len(op_df_edit)

RPositive(a) == RLess[R(0), a]

\* The other widgets a row's result depends on kept their values in this step.
GlobalsKept == /\ L' = L /\ W' = W /\ H' = H /\ V_final' = V_final
               /\ ae_mode' = ae_mode /\ feed_mode' = feed_mode

\* The step changed the table in the columns `cols` at most.
OnlyColumnsEdited(cols) ==
    /\ Len(op_df_edit') = Len(op_df_edit)
    /\ \A i \in Rows : \A c \in (Columns \cup {"Operation"}) \ cols :
          op_df_edit'[i][c] = op_df_edit[i][c]

\* C1: every row with a strictly positive MRR reports the time
\* (chipVolume * volumeShare) / MRR, in minutes, with no further factor.
C1_TimeIsVolumeOverMRR ==
    \A i \in 1..Len(op_results) :
        RPositive(op_results[i].MRR) =>
            op_results[i].Time =
                RDiv[RMul[V_chip, op_df_edit[i].VolumeShare], op_results[i].MRR]

\* C2: every row whose MRR is zero or negative reports the time 0.
C2_NoRemovalNoTime ==
    \A i \in 1..Len(op_results) :
        ~RPositive(op_results[i].MRR) => op_results[i].Time = R(0)

\* C3: rawVolume = L * W * H and chipVolume = max(rawVolume - finalVolume, 0),
\* so chipVolume is never negative and is 0 whenever finalVolume exceeds
\* rawVolume.
C3_Volumes ==
    /\ V_raw = RMul[L, RMul[W, H]]
    /\ V_chip = (IF RLess[V_raw, V_final] THEN R(0) ELSE RSub[V_raw, V_final])
    /\ ~RLess[V_chip, R(0)]
    /\ RLess[V_raw, V_final] => V_chip = R(0)

\* A final volume above the raw volume has been entered and clamped.
C3_Witness == RLess[V_raw, V_final] /\ V_chip = R(0) /\ V_raw = RMul[L, RMul[W, H]]

\* C4 (state part): the feed of a row is teeth * RPM * feedPerTooth in the
\* calculated mode and the row's 'Feed (mm/min)' cell in the manual mode, and
\* the MRR is feed * a_p * a_e in both.
C4_FeedOfRows ==
    \A i \in Rows :
        /\ op_results[i].Feed =
              (IF FeedIsCalculated(feed_mode)
               THEN RMul[op_df_edit[i].Teeth, RMul[op_df_edit[i].RPM, op_df_edit[i].f_z]]
               ELSE op_df_edit[i].Feed)
        /\ op_results[i].MRR =
              RMul[op_results[i].Feed, RMul[op_df_edit[i].a_p, op_results[i].ae]]

\* C4 (step part): retyping only the cells the current feed mode ignores (the
\* feed cell in the calculated mode; teeth, RPM and f_z in the manual mode)
\* leaves every result row, so feed, MRR and time, as it was.
C4_IgnoredCellsStep ==
    ( /\ GlobalsKept
      /\ \/ FeedIsCalculated(feed_mode) /\ OnlyColumnsEdited({"Feed"})
         \/ ~FeedIsCalculated(feed_mode) /\ OnlyColumnsEdited({"Teeth", "RPM", "f_z"}) )
    => op_results' = op_results

\* C4: feed resolution per row, in both modes, and the cells of the other
\* mode have no influence on feed, MRR or time.
C4_FeedResolution == [](C4_FeedOfRows) /\ [][C4_IgnoredCellsStep]_vars

\* Calculated mode with a feed cell that differs from the calculated feed;
\* and the manual mode with the feed cell in use.
C4_Witness ==
    /\ Len(op_results) = 1
    /\ FeedIsCalculated(feed_mode)
    /\ op_df_edit[1].Feed = R(-2160)
    /\ op_results[1].Feed = R(2160)
    /\ RPositive(op_results[1].MRR)
    /\ RPositive(op_results[1].Time)

\* C5 (state part): the radial depth used is toolDiameter * (percent / 100)
\* in the percent mode and the row's a_e cell in the manual mode; the a_e of
\* the result row is the one the MRR is made of.
C5_RadialDepthOfRows ==
    \A i \in Rows :
        /\ op_results[i].ae =
              (IF AeIsPercent(ae_mode)
               THEN RMul[op_df_edit[i].Tool, RDiv[op_df_edit[i].ae_pct, R(100)]]
               ELSE op_df_edit[i].a_e)
        /\ op_results[i].MRR =
              RMul[RMul[op_results[i].Feed, op_df_edit[i].a_p], op_results[i].ae]

\* C5 (step part): retyping only the cells the current radial mode ignores
\* (a_e in the percent mode; tool diameter and percent in the manual mode)
\* leaves every result row as it was.
C5_IgnoredCellsStep ==
    ( /\ GlobalsKept
      /\ \/ AeIsPercent(ae_mode) /\ OnlyColumnsEdited({"a_e"})
         \/ ~AeIsPercent(ae_mode) /\ OnlyColumnsEdited({"Tool", "ae_pct"}) )
    => op_results' = op_results

\* C5: radial depth resolution per row, in both modes; the cells of the other
\* mode have no influence, and the reported a_e is the one used in the MRR.
C5_RadialDepthResolution == [](C5_RadialDepthOfRows) /\ [][C5_IgnoredCellsStep]_vars

\* Percent mode, 50 % of a 12 mm tool gives 6 mm, whatever the a_e cell holds.
C5_Witness ==
    /\ Len(op_results) = 1
    /\ AeIsPercent(ae_mode)
    /\ op_df_edit[1].Tool = R(12)
    /\ op_df_edit[1].ae_pct = R(50)
    /\ op_df_edit[1].a_e = R(0)
    /\ op_results[1].ae = R(6)
    /\ RPositive(op_results[1].MRR)

\* C6: for every operations table, the empty one included, machiningTimeMin
\* is the sum of the rows' times and totalTimeMin = machiningTimeMin +
\* setupTimeMin.
C6_TimesAddUp ==
    /\ mach_time_min = SumTime(op_results)
    /\ total_time_min = RAdd[SumTime(op_results), setup_time_min]

\* C7: whenever the run reaches the cost section, the quote is
\* materialCost = rawVolume * density * price,
\* machineCost = (machiningTimeMin / 60) * machineHourlyRate,
\* setupCost = (setupTimeMin / 60) * setupLaborRate,
\* subtotal = materialCost + machineCost + toolCostPerPart + setupCost,
\* overheadAmount = subtotal * overheadPct / 100,
\* totalCost = subtotal + overheadAmount, for zero and negative inputs too.
C7_Quote ==
    ~raised =>
        /\ material_cost = RMul[V_raw, RMul[mat_density, mat_price]]
        /\ machine_cost = RMul[RDiv[mach_time_min, R(60)], machine_rate]
        /\ setup_cost = RMul[RDiv[setup_time_min, R(60)], setup_labor_rate]
        /\ subtotal = RAdd[material_cost, RAdd[machine_cost, RAdd[tool_cost, setup_cost]]]
        /\ overhead = RDiv[RMul[subtotal, overhead_pct], R(100)]
        /\ total_cost = RAdd[subtotal, overhead]

\* A quote with a negative labor rate, a zero overhead and a priced material.
C7_Witness ==
    /\ ~raised
    /\ setup_labor_rate = R(-40) /\ setup_cost = R(-40)
    /\ mat_price = R(50) /\ material_cost = R(162)
    /\ overhead_pct = R(0) /\ overhead = R(0)
    /\ RPositive(machine_cost)
    /\ total_cost = subtotal

\* C8 (step part): a run on the widget values of the run before it gives the
\* results of the run before it.
C8_SameInputsStep == inputs' = inputs => results' = results

\* C8 (state part): whatever ran in between, a run on the widget values of
\* the first run gives the results of the first run.
C8_FirstRunAgain ==
    Snapshot = Defaults(default_operations) =>
        \E out \in {Script(Defaults(default_operations), <<>>)} :
            results = <<out.V_raw, out.V_chip, out.op_results, out.raised,
                        out.mach_time_min, out.total_time_min, out.material_cost,
                        out.machine_cost, out.setup_cost, out.subtotal,
                        out.overhead, out.total_cost>>

\* C8: the results are a function of the input snapshot alone: runs on
\* identical inputs give identical results, and no earlier run leaves a
\* trace in a later one.
C8_Pure == [](C8_FirstRunAgain) /\ [][C8_SameInputsStep]_vars

\* A run triggered with every widget unchanged, on a table with rows.
C8_Witness == pdf_clicked /\ ~raised /\ Len(op_results) = Len(op_df_edit)

\* C9: the results table is parallel to the operations table: one result row
\* per input row, in order, carrying that row's name, feed, radial depth
\* used, MRR, chip volume (= chipVolume * volumeShare) and the time made of
\* that chip volume and MRR.
C9_ParallelRows ==
    /\ Len(op_results) = Len(op_df_edit)
    /\ \A i \in Rows :
          /\ op_results[i].Operation = op_df_edit[i].Operation
          /\ op_results[i].Feed = FeedOf(op_df_edit[i], feed_mode)
          /\ op_results[i].ae = AeOf(op_df_edit[i], ae_mode)
          /\ op_results[i].MRR =
                RMul[RMul[op_results[i].Feed, op_df_edit[i].a_p], op_results[i].ae]
          /\ op_results[i].ChipVolume = RMul[V_chip, op_df_edit[i].VolumeShare]
          /\ op_results[i].Time = TimeOf(op_results[i].ChipVolume, op_results[i].MRR)

\* Three rows, the second of them removing nothing, the same row twice.
C9_Witness ==
    /\ Len(op_df_edit) = 3
    /\ op_df_edit[1] = op_df_edit[3]
    /\ op_df_edit[1] # op_df_edit[2]
    /\ op_results[2].MRR = R(0)
    /\ RPositive(V_chip)

Permutations(n) ==
    {p \in [1..n -> 1..n] : \A i, j \in 1..n : p[i] = p[j] => i = j}

Permuted(seq, p) == [i \in 1..Len(seq) |-> seq[p[i]]]

\* C10: a row's result depends on the row and the globals, not on its place:
\* the run on any permutation of the table gives the result rows permuted the
\* same way and the same machiningTimeMin, totalTimeMin and totalCost.
C10_OrderIndependent ==
    /\ \A i, j \in Rows : op_df_edit[i] = op_df_edit[j] => op_results[i] = op_results[j]
    /\ \A p \in Permutations(Len(op_df_edit)) :
          \E out \in {Script([Snapshot EXCEPT !.op_df_edit = Permuted(op_df_edit, p)],
                              <<>>)} :
              /\ out.op_results = Permuted(op_results, p)
              /\ out.mach_time_min = mach_time_min
              /\ out.total_time_min = total_time_min
              /\ out.total_cost = total_cost

\* The default table in reverse order, every other widget at its default:
\* three different rows with three different, non-zero times.
C10_Witness ==
    /\ op_df_edit = <<default_operations[3], default_operations[2], default_operations[1]>>
    /\ [Snapshot EXCEPT !.op_df_edit = default_operations] = Defaults(default_operations)
    /\ ~raised
    /\ op_results[1].Operation = "Finish"
    /\ op_results[3].Operation = "Rough 3X"
    /\ \A i, j \in Rows : i # j => op_results[i].Time # op_results[j].Time
    /\ \A i \in Rows : RPositive(op_results[i].Time)

====
